---- MODULE Spec2Model ----
(***************************************************************************)
(* A model of src/diffusers/models/transformers/transformer_mochi.py:      *)
(* MochiTransformerBlock (the dual-stream block) and                       *)
(* MochiTransformer3DModel (construction, patchify, the block loop,        *)
(* unpatchify).                                                            *)
(*                                                                         *)
(* Tensors are records [ok, shape, meta, data].  A tensor with meta = TRUE *)
(* carries its shape only (torch's "meta" device); otherwise data is the   *)
(* row-major sequence of its elements.  Elements are symbolic terms over   *)
(* the reals: unknowns <<"var", name, index>>, the numbers Zero and One,   *)
(* and applications of +, *, tanh and of the library layers.  The only     *)
(* identities built into the terms are x+0 = x, x*0 = 0 and tanh(0) = 0,   *)
(* and x*1 = x, so two equal terms denote equal numbers whatever the       *)
(* weights are.  A raised exception is the tensor Raised, and every        *)
(* operation on it raises again.                                           *)
(***************************************************************************)
EXTENDS Integers, Sequences, FiniteSets, TLC

VARIABLES pc, config, transformer_blocks, parameters, sample, hidden_states,
          encoder_hidden_states, temb, layer, locals, output

vars == <<pc, config, transformer_blocks, parameters, sample, hidden_states,
          encoder_hidden_states, temb, layer, locals, output>>

(***************************************************************************)
(* Bounds of the model.                                                    *)
(***************************************************************************)
MaxPatch == 2
MaxHeads == 2
MaxPooled == 2
MaxLayers == 2
MaxChannels == 3
MaxOutChannels == 1
MaxBatch == 2
MaxFrames == 2
MaxHeight == 3
MaxWidth == 2
MaxText == 2
MaxTokens == 2
MaxPost == 2

(***************************************************************************)
(* Shapes and indices (row-major, indices from 0 as in torch).             *)
(***************************************************************************)
RECURSIVE Prod(_)
Prod(s) ==
    IF s = <<>> THEN 1 ELSE Head(s) * Prod(Tail(s))

Numel(shape) ==
    Prod(shape)

Stride(shape, i) ==
    Prod(SubSeq(shape, i + 1, Len(shape)))

Unravel(k, shape) ==
    [i \in 1..Len(shape) |-> (k \div Stride(shape, i)) % shape[i]]

RECURSIVE RavelFrom(_, _, _)
RavelFrom(idx, shape, i) ==
    IF i > Len(shape) THEN 0
    ELSE idx[i] * Stride(shape, i) + RavelFrom(idx, shape, i + 1)

Ravel(idx, shape) ==
    RavelFrom(idx, shape, 1)

(***************************************************************************)
(* Tensors.                                                                *)
(***************************************************************************)
Tensor(shape, data) ==
    [ok |-> TRUE, shape |-> shape, meta |-> FALSE, data |-> data]

Meta(shape) ==
    [ok |-> TRUE, shape |-> shape, meta |-> TRUE, data |-> <<>>]

Raised ==
    [ok |-> FALSE, shape |-> <<>>, meta |-> TRUE, data |-> <<>>]

None ==
    [ok |-> TRUE, shape |-> <<>>, meta |-> TRUE, data |-> <<>>]

At(t, idx) ==
    t.data[Ravel(idx, t.shape) + 1]

\* A tensor of unknowns named by their position: the result of a layer whose
\* weights are not known, or an input of the call.
Unknown(name, shape, meta) ==
    IF meta THEN Meta(shape)
    ELSE Tensor(shape, [k \in 1..Numel(shape) |-> <<"var", name, Unravel(k - 1, shape)>>])

(***************************************************************************)
(* Terms.                                                                  *)
(***************************************************************************)
Zero == <<"0">>

One == <<"1">>

TAdd(a, b) ==
    IF b = Zero THEN a ELSE IF a = Zero THEN b ELSE <<"add", a, b>>

TMul(a, b) ==
    IF a = Zero \/ b = Zero THEN Zero
    ELSE IF b = One THEN a ELSE IF a = One THEN b ELSE <<"mul", a, b>>

TTanh(a) ==
    IF a = Zero THEN Zero ELSE <<"tanh", a>>

(***************************************************************************)
(* The torch operations the source calls.                                  *)
(***************************************************************************)
NoShape == <<-1>>

\* The sizes a view asks for, with its -1 entry (if any) inferred from n
\* elements; NoShape when the sizes do not fit n.
InferShape(n, sizes) ==
    LET known == Prod([i \in 1..Len(sizes) |-> IF sizes[i] = -1 THEN 1 ELSE sizes[i]])
    IN  IF \E i \in 1..Len(sizes) : sizes[i] = -1
        THEN IF known = 0 \/ n % known # 0 THEN NoShape
             ELSE [i \in 1..Len(sizes) |-> IF sizes[i] = -1 THEN n \div known ELSE sizes[i]]
        ELSE IF known = n THEN sizes ELSE NoShape

Reshape(t, sizes) ==
    IF ~t.ok THEN Raised
    ELSE LET s == InferShape(Numel(t.shape), sizes)
         IN  IF s = NoShape THEN Raised ELSE [t EXCEPT !.shape = s]

Permute(t, dims) ==
    IF ~t.ok \/ Len(dims) # Len(t.shape) THEN Raised
    ELSE LET s == [i \in 1..Len(dims) |-> t.shape[dims[i] + 1]]
         IN  IF t.meta THEN Meta(s)
             ELSE Tensor(s, [k \in 1..Numel(s) |->
                    LET j == Unravel(k - 1, s)
                        src == [d \in 1..Len(dims) |->
                                  j[CHOOSE i \in 1..Len(dims) : dims[i] + 1 = d]]
                    IN  t.data[Ravel(src, t.shape) + 1]])

Flatten(t, a, b) ==
    IF ~t.ok THEN Raised
    ELSE [t EXCEPT !.shape = SubSeq(t.shape, 1, a)
                               \o <<Prod(SubSeq(t.shape, a + 1, b + 1))>>
                               \o SubSeq(t.shape, b + 2, Len(t.shape))]

Unflatten(t, d, sizes) ==
    IF ~t.ok THEN Raised
    ELSE LET s == InferShape(t.shape[d + 1], sizes)
         IN  IF s = NoShape THEN Raised
             ELSE [t EXCEPT !.shape = SubSeq(t.shape, 1, d) \o s
                                        \o SubSeq(t.shape, d + 2, Len(t.shape))]

Unsqueeze(t, d) ==
    IF ~t.ok THEN Raised
    ELSE [t EXCEPT !.shape = SubSeq(t.shape, 1, d) \o <<1>>
                               \o SubSeq(t.shape, d + 1, Len(t.shape))]

Pad(s, r) ==
    [i \in 1..r |-> IF i <= r - Len(s) THEN 1 ELSE s[i - (r - Len(s))]]

BroadcastShape(sa, sb) ==
    LET r == IF Len(sa) > Len(sb) THEN Len(sa) ELSE Len(sb)
        a == Pad(sa, r)
        b == Pad(sb, r)
    IN  IF \A i \in 1..r : a[i] = b[i] \/ a[i] = 1 \/ b[i] = 1
        THEN [i \in 1..r |-> IF a[i] = 1 THEN b[i] ELSE a[i]]
        ELSE NoShape

\* The element of t that index j of the broadcast result (of rank r) reads.
Expanded(t, j, r) ==
    LET off == r - Len(t.shape)
    IN  t.data[Ravel([i \in 1..Len(t.shape) |->
                         IF t.shape[i] = 1 THEN 0 ELSE j[i + off]], t.shape) + 1]

Pointwise(op, a, b) ==
    IF ~a.ok \/ ~b.ok THEN Raised
    ELSE LET s == BroadcastShape(a.shape, b.shape)
         IN  IF s = NoShape THEN Raised
             ELSE IF a.meta \/ b.meta THEN Meta(s)
             ELSE Tensor(s, [k \in 1..Numel(s) |->
                    LET j == Unravel(k - 1, s)
                        x == Expanded(a, j, Len(s))
                        y == Expanded(b, j, Len(s))
                    IN  IF op = "add" THEN TAdd(x, y) ELSE TMul(x, y)])

Add(a, b) ==
    Pointwise("add", a, b)

Mul(a, b) ==
    Pointwise("mul", a, b)

Tanh(t) ==
    IF ~t.ok \/ t.meta THEN t
    ELSE [t EXCEPT !.data = [k \in 1..Len(t.data) |-> TTanh(t.data[k])]]

\* 1 + t
OnePlus(t) ==
    IF ~t.ok \/ t.meta THEN t
    ELSE [t EXCEPT !.data = [k \in 1..Len(t.data) |-> TAdd(One, t.data[k])]]

(***************************************************************************)
(* The library layers the source builds and calls.  Their code is not in   *)
(* the source file; they are modelled by their interface: the shapes they  *)
(* accept and return, and a result that is an unknown function of the rows *)
(* (last axis) they read.                                                  *)
(***************************************************************************)
Width(t) ==
    t.shape[Len(t.shape)]

\* The row along the last axis that holds the element at index j.
Row(t, j) ==
    [c \in 1..Width(t) |-> t.data[Ravel([j EXCEPT ![Len(j)] = c - 1], t.shape) + 1]]

\* A layer acting on each row: x[..., in] -> [..., out].
RowLayer(tag, x, in, out) ==
    IF ~x.ok THEN Raised
    ELSE IF Len(x.shape) = 0 \/ Width(x) # in THEN Raised
    ELSE LET s == [x.shape EXCEPT ![Len(x.shape)] = out]
         IN  IF x.meta THEN Meta(s)
             ELSE Tensor(s, [k \in 1..Numel(s) |->
                    LET j == Unravel(k - 1, s)
                    IN  <<"row", tag, Row(x, [j EXCEPT ![Len(j)] = 0]), j[Len(j)]>>])

\* RMSNorm(dim, eps, elementwise_affine=False): no weight, any width.
RMSNorm(x) ==
    IF ~x.ok \/ Len(x.shape) = 0 THEN Raised
    ELSE RowLayer(<<"rms_norm">>, x, Width(x), Width(x))

\* nn.Linear(in_features, out_features)
Linear(name, in, out, x) ==
    RowLayer(<<"linear", name>>, x, in, out)

\* FeedForward(dim, inner_dim=..., bias=False): dim -> inner_dim -> dim
FeedForward(name, dim, x) ==
    RowLayer(<<"ff", name>>, x, dim, dim)

Zeros(shape, meta) ==
    IF meta THEN Meta(shape) ELSE Tensor(shape, [k \in 1..Numel(shape) |-> Zero])

\* MochiRMSNormZero(embedding_dim, hidden_dim).forward(x, emb): a linear layer
\* takes emb[B, embedding_dim] to [B, hidden_dim], which is cut in four chunks
\* scale_msa, gate_msa, scale_mlp, gate_mlp; returns RMSNorm(x) * (1 +
\* scale_msa[:, None]) and the last three.  With gates_zero the rows of the
\* linear layer that produce the two gates are zero.
MochiRMSNormZero(m, name, gates_zero, x, emb) ==
    IF ~x.ok \/ ~emb.ok \/ Len(emb.shape) # 2 THEN
        [normed |-> Raised, gate_msa |-> Raised, scale_mlp |-> Raised, gate_mlp |-> Raised]
    ELSE IF emb.shape[2] # m.embedding_dim THEN
        [normed |-> Raised, gate_msa |-> Raised, scale_mlp |-> Raised, gate_mlp |-> Raised]
    ELSE LET s == <<emb.shape[1], m.hidden_dim \div 4>>
             scale_msa == Unknown(name \o <<"scale_msa">>, s, x.meta)
         IN  [normed    |-> Mul(RMSNorm(x), OnePlus(Unsqueeze(scale_msa, 1))),
              gate_msa  |-> IF gates_zero THEN Zeros(s, x.meta)
                            ELSE Unknown(name \o <<"gate_msa">>, s, x.meta),
              scale_mlp |-> Unknown(name \o <<"scale_mlp">>, s, x.meta),
              gate_mlp  |-> IF gates_zero THEN Zeros(s, x.meta)
                            ELSE Unknown(name \o <<"gate_mlp">>, s, x.meta)]

\* Attention(query_dim, added_kv_proj_dim, out_dim, out_context_dim, ...) with the
\* joint processor: (video[B,S,query_dim], text[B,T,added_kv_proj_dim]) ->
\* (video[B,S,out_dim], text[B,T,out_context_dim]).
Attention(a, hs, ehs) ==
    IF ~hs.ok \/ ~ehs.ok \/ Len(hs.shape) # 3 \/ Len(ehs.shape) # 3 THEN
        [hidden_states |-> Raised, encoder_hidden_states |-> Raised]
    ELSE IF \/ hs.shape[3] # a.query_dim
            \/ ehs.shape[3] # a.added_kv_proj_dim
            \/ hs.shape[1] # ehs.shape[1] THEN
        [hidden_states |-> Raised, encoder_hidden_states |-> Raised]
    ELSE
        [hidden_states |->
             Unknown(<<"attn1", "hidden_states">>,
                     <<hs.shape[1], hs.shape[2], a.out_dim>>, hs.meta),
         encoder_hidden_states |->
             Unknown(<<"attn1", "encoder_hidden_states">>,
                     <<ehs.shape[1], ehs.shape[2], a.out_context_dim>>, hs.meta)]

(***************************************************************************)
(* MochiTransformerBlock                                                   *)
(***************************************************************************)
FFInnerDimCeil(dim) ==
    (4 * dim * 2 + 2) \div 3

\* lines 50-51
FFInnerDim(dim) ==
    (4 * dim * 2) \div 3

\* __init__, lines 49-89
MochiTransformerBlock(dim, num_attention_heads, attention_head_dim, pooled_projection_dim, context_pre_only) ==
    [context_pre_only |-> context_pre_only,
     ff_inner_dim |-> FFInnerDim(dim),
     ff_context_inner_dim |-> FFInnerDim(pooled_projection_dim),
     norm1 |-> [kind |-> "MochiRMSNormZero", embedding_dim |-> dim, hidden_dim |-> 4 * dim],
     norm1_context |->
         IF ~context_pre_only
         THEN [kind |-> "MochiRMSNormZero", embedding_dim |-> dim,
               hidden_dim |-> 4 * pooled_projection_dim]
         ELSE [kind |-> "Linear", in_features |-> dim,
               out_features |-> pooled_projection_dim],
     attn1 |-> [query_dim |-> dim, heads |-> num_attention_heads,
                dim_head |-> attention_head_dim,
                added_kv_proj_dim |-> pooled_projection_dim,
                out_dim |-> dim, out_context_dim |-> pooled_projection_dim,
                context_pre_only |-> context_pre_only],
     ff |-> [dim |-> dim, inner_dim |-> FFInnerDim(dim)],
     ff_context |->
         IF ~context_pre_only
         THEN [dim |-> pooled_projection_dim,
               inner_dim |-> FFInnerDim(pooled_projection_dim)]
         ELSE [dim |-> 0, inner_dim |-> 0]]

\* What the block hands back, were it to return the tensor it fed to attention.
BlockReturnProjected(l) ==
    [hidden_states |-> l.hidden_states, encoder_hidden_states |-> l.attn_encoder_input]

\* line 131
BlockReturn(l) ==
    [hidden_states |-> l.hidden_states, encoder_hidden_states |-> l.encoder_hidden_states]

\* forward: the locals of a call before its first line.  A local that is not
\* bound yet is None.
BlockEntry(self, w, hs, ehs, tb) ==
    [self |-> self, zero_gates |-> w, temb |-> tb,
     hidden_states_in |-> hs, encoder_hidden_states_in |-> ehs,
     hidden_states |-> hs, encoder_hidden_states |-> ehs,
     norm_hidden_states |-> None, gate_msa |-> None, scale_mlp |-> None,
     gate_mlp |-> None,
     norm_encoder_hidden_states |-> None, enc_gate_msa |-> None,
     enc_scale_mlp |-> None, enc_gate_mlp |-> None,
     attn_encoder_input |-> None, attn_hidden_states |-> None,
     context_attn_hidden_states |-> None,
     hidden_states_attn |-> None, encoder_hidden_states_attn |-> None,
     ff_input |-> None, ff_context_input |-> None,
     ff_output |-> None, context_ff_output |-> None,
     raised |-> FALSE]

\* The locals after a statement that leaves r in a local: a raised exception
\* ends the call.
Raises(l, r) ==
    l.raised \/ ~r.ok

\* line 98
Line98(l) ==
    IF l.raised THEN l
    ELSE LET n == MochiRMSNormZero(l.self.norm1, <<"norm1">>, l.zero_gates.norm1,
                                   l.hidden_states, l.temb)
         IN  [l EXCEPT !.norm_hidden_states = n.normed, !.gate_msa = n.gate_msa,
                       !.scale_mlp = n.scale_mlp, !.gate_mlp = n.gate_mlp,
                       !.raised = Raises(l, n.normed)]

\* lines 100-105
Line100(l) ==
    IF l.raised THEN l
    ELSE IF ~l.self.context_pre_only
    THEN LET n == MochiRMSNormZero(l.self.norm1_context, <<"norm1_context">>,
                                   l.zero_gates.norm1_context,
                                   l.encoder_hidden_states, l.temb)
         IN  [l EXCEPT !.norm_encoder_hidden_states = n.normed,
                       !.attn_encoder_input = n.normed,
                       !.enc_gate_msa = n.gate_msa, !.enc_scale_mlp = n.scale_mlp,
                       !.enc_gate_mlp = n.gate_mlp, !.raised = Raises(l, n.normed)]
    ELSE LET n == Linear("norm1_context", l.self.norm1_context.in_features,
                         l.self.norm1_context.out_features, l.encoder_hidden_states)
         IN  [l EXCEPT !.norm_encoder_hidden_states = n, !.attn_encoder_input = n,
                       !.raised = Raises(l, n)]

\* lines 107-111
Line107(l) ==
    IF l.raised THEN l
    ELSE LET a == Attention(l.self.attn1, l.norm_hidden_states,
                            l.norm_encoder_hidden_states)
         IN  [l EXCEPT !.attn_hidden_states = a.hidden_states,
                       !.context_attn_hidden_states = a.encoder_hidden_states,
                       !.raised = Raises(l, a.hidden_states)]

\* line 113
Line113(l) ==
    IF l.raised THEN l
    ELSE LET r == Add(l.hidden_states,
                      Mul(RMSNorm(l.attn_hidden_states), Unsqueeze(Tanh(l.gate_msa), 1)))
         IN  [l EXCEPT !.hidden_states = r, !.hidden_states_attn = r,
                       !.raised = Raises(l, r)]

\* line 114
Line114(l) ==
    IF l.raised THEN l
    ELSE LET r == Mul(RMSNorm(l.hidden_states), OnePlus(Unsqueeze(l.scale_mlp, 1)))
         IN  [l EXCEPT !.norm_hidden_states = r, !.raised = Raises(l, r)]

\* lines 116-119
Line117(l) ==
    IF l.raised \/ l.self.context_pre_only THEN l
    ELSE LET r == Add(l.encoder_hidden_states,
                      Mul(RMSNorm(l.context_attn_hidden_states),
                          Unsqueeze(Tanh(l.enc_gate_msa), 1)))
         IN  [l EXCEPT !.encoder_hidden_states = r, !.encoder_hidden_states_attn = r,
                       !.raised = Raises(l, r)]

\* lines 120-122
Line120(l) ==
    IF l.raised \/ l.self.context_pre_only THEN l
    ELSE LET r == Add(l.encoder_hidden_states,
                      Mul(RMSNorm(l.encoder_hidden_states),
                          OnePlus(Unsqueeze(l.enc_scale_mlp, 1))))
         IN  [l EXCEPT !.norm_encoder_hidden_states = r, !.raised = Raises(l, r)]

\* line 124
Line124(l) ==
    IF l.raised THEN l
    ELSE LET r == FeedForward("ff", l.self.ff.dim, l.norm_hidden_states)
         IN  [l EXCEPT !.ff_input = l.norm_hidden_states, !.ff_output = r,
                       !.raised = Raises(l, r)]

\* line 125
Line125(l) ==
    IF l.raised THEN l
    ELSE LET r == Add(l.hidden_states, Mul(l.ff_output, Unsqueeze(Tanh(l.gate_mlp), 1)))
         IN  [l EXCEPT !.hidden_states = r, !.raised = Raises(l, r)]

\* lines 127-128
Line128(l) ==
    IF l.raised \/ l.self.context_pre_only THEN l
    ELSE LET r == FeedForward("ff_context", l.self.ff_context.dim,
                              l.norm_encoder_hidden_states)
         IN  [l EXCEPT !.ff_context_input = l.norm_encoder_hidden_states,
                       !.context_ff_output = r, !.raised = Raises(l, r)]

\* line 129
Line129(l) ==
    IF l.raised \/ l.self.context_pre_only THEN l
    ELSE LET r == Add(l.encoder_hidden_states,
                      Mul(l.context_ff_output, Unsqueeze(Tanh(l.enc_gate_mlp), 0)))
         IN  [l EXCEPT !.encoder_hidden_states = r, !.raised = Raises(l, r)]

\* forward, lines 98-129: the values of the locals when line 131 is reached.
\* w.norm1 and w.norm1_context say whether the gate rows of the two modulation
\* layers are zero.
BlockLocals(self, w, hs, ehs, tb) ==
    Line129(Line128(Line125(Line124(Line120(Line117(Line114(Line113(Line107(
        Line100(Line98(BlockEntry(self, w, hs, ehs, tb))))))))))))

(***************************************************************************)
(* MochiTransformer3DModel                                                 *)
(***************************************************************************)
\* line 156
InnerDim(cfg) ==
    cfg.num_attention_heads * cfg.attention_head_dim

\* line 157: out_channels or in_channels (None and 0 are both false)
OutChannels(cfg) ==
    IF cfg.out_channels = 0 THEN cfg.in_channels ELSE cfg.out_channels

ContextPreOnlyFirst(i, num_layers) ==
    i = 0

\* line 184, for i in range(num_layers)
ContextPreOnly(i, num_layers) ==
    i = num_layers - 1

\* lines 175-188
TransformerBlocks(cfg) ==
    [k \in 1..cfg.num_layers |->
        MochiTransformerBlock(InnerDim(cfg), cfg.num_attention_heads,
                              cfg.attention_head_dim, cfg.pooled_projection_dim,
                              ContextPreOnly(k - 1, cfg.num_layers))]

\* The parameters a freshly built model is given here: nothing is known of
\* the weights.
GenericParameters(n) ==
    [patch_embed |-> "generic",
     blocks |-> [k \in 1..n |-> [norm1 |-> FALSE, norm1_context |-> FALSE]]]

\* PatchEmbed(patch_size, in_channels, embed_dim): a convolution of kernel and
\* stride patch_size over x[N, C, H, W], its output flattened to
\* [N, (H // p) * (W // p), embed_dim] with the patches in row-major order.
\* With "identity" weights (embed_dim = p*p*C, no bias) feature (a*p + b)*C + c
\* of a token is the pixel (c, a, b) of its patch.
PatchEmbed(cfg, weights, x) ==
    LET p == cfg.patch_size IN
    IF ~x.ok \/ Len(x.shape) # 4 THEN Raised
    ELSE IF x.shape[2] # cfg.in_channels \/ x.shape[3] < p \/ x.shape[4] < p THEN Raised
    ELSE IF weights = "identity" /\ InnerDim(cfg) # p * p * cfg.in_channels THEN Raised
    ELSE LET hh == x.shape[3] \div p
             ww == x.shape[4] \div p
             s == <<x.shape[1], hh * ww, InnerDim(cfg)>>
         IN  IF x.meta THEN Meta(s)
             ELSE Tensor(s, [k \in 1..Numel(s) |->
                    LET j == Unravel(k - 1, s)
                        i0 == (j[2] \div ww) * p
                        j0 == (j[2] % ww) * p
                        abc == Unravel(j[3], <<p, p, cfg.in_channels>>)
                    IN  IF weights = "identity"
                        THEN At(x, <<j[1], abc[3], i0 + abc[1], j0 + abc[2]>>)
                        ELSE <<"row", <<"patch_embed">>,
                               [q \in 1..(cfg.in_channels * p * p) |->
                                  LET cab == Unravel(q - 1, <<cfg.in_channels, p, p>>)
                                  IN  At(x, <<j[1], cab[1], i0 + cab[2], j0 + cab[3]>>)],
                               j[3]>>])

\* MochiCombinedTimestepCaptionEmbedding(embedding_dim=inner_dim,
\* pooled_projection_dim, ...): (timestep[B], caption[B, T, text_embed_dim],
\* mask) -> (temb[B, inner_dim], text[B, T, pooled_projection_dim])
TimeEmbed(cfg, batch, text_tokens, meta) ==
    [temb |-> Unknown(<<"temb">>, <<batch, InnerDim(cfg)>>, meta),
     encoder_hidden_states |->
         Unknown(<<"caption_proj">>, <<batch, text_tokens, cfg.pooled_projection_dim>>, meta)]

\* lines 212-214
Patchify(cfg, weights, x, batch_size) ==
    LET a == Flatten(Permute(x, <<0, 2, 1, 3, 4>>), 0, 1)
        b == PatchEmbed(cfg, weights, a)
    IN  Flatten(Unflatten(b, 0, <<batch_size, -1>>), 1, 2)

UnpatchifyDimsUnswapped ==
    <<0, 6, 1, 2, 3, 4, 5>>

\* line 229
UnpatchifyDims ==
    <<0, 6, 1, 2, 4, 3, 5>>

\* lines 207-208 and 228-230
Unpatchify(x, p, batch_size, num_frames, height, width) ==
    LET post_patch_height == height \div p
        post_patch_width == width \div p
        a == Reshape(x, <<batch_size, num_frames, post_patch_height,
                          post_patch_width, p, p, -1>>)
        b == Permute(a, UnpatchifyDims)
    IN  Reshape(b, <<batch_size, -1, num_frames, height, width>>)

\* lines 225-226: AdaLayerNormContinuous(inner_dim, inner_dim) keeps the shape,
\* proj_out = nn.Linear(inner_dim, patch_size * patch_size * out_channels)
NormProjOut(cfg, x, tb) ==
    IF ~x.ok \/ ~tb.ok THEN Raised
    ELSE IF Width(tb) # InnerDim(cfg) THEN Raised
    ELSE Linear("proj_out", InnerDim(cfg),
                cfg.patch_size * cfg.patch_size * OutChannels(cfg),
                RowLayer(<<"norm_out">>, x, InnerDim(cfg), InnerDim(cfg)))

(***************************************************************************)
(* The state machine: a model is built, forward is called on it and runs   *)
(* patchify, one block per step, and the output stage.                     *)
(***************************************************************************)
NoLocals == <<>>

HeadDims == {1}

Configs ==
    [patch_size : 1..MaxPatch,
     num_attention_heads : 1..MaxHeads,
     attention_head_dim : HeadDims,
     num_layers : 0..MaxLayers,
     pooled_projection_dim : 1..MaxPooled,
     in_channels : 1..MaxChannels,
     out_channels : 0..MaxOutChannels]

\* __init__, lines 139-193
Construct ==
    /\ pc = "new"
    /\ transformer_blocks' = TransformerBlocks(config)
    /\ parameters' = GenericParameters(config.num_layers)
    /\ pc' = "idle"
    /\ UNCHANGED <<config, sample, hidden_states, encoder_hidden_states, temb,
                   layer, locals, output>>

\* forward, lines 204-214
ForwardBegin ==
    /\ pc = "idle"
    /\ \E b \in 1..MaxBatch, f \in 1..MaxFrames, h \in 1..MaxHeight,
          w \in 1..MaxWidth, t \in 1..MaxText :
          LET x == Meta(<<b, config.in_channels, f, h, w>>)
              te == TimeEmbed(config, b, t, TRUE)
              hs == Patchify(config, parameters.patch_embed, x, b)
          IN  /\ sample' = x
              /\ temb' = te.temb
              /\ encoder_hidden_states' = te.encoder_hidden_states
              /\ hidden_states' = hs
              /\ pc' = IF hs.ok THEN "blocks" ELSE "raised_patch_embed"
    /\ layer' = 0
    /\ UNCHANGED <<config, transformer_blocks, parameters, locals, output>>

\* forward, lines 216-222: one turn of the loop
BlockStep ==
    /\ pc = "blocks"
    /\ layer < Len(transformer_blocks)
    /\ \E l \in {BlockLocals(transformer_blocks[layer + 1],
                            parameters.blocks[layer + 1],
                            hidden_states, encoder_hidden_states, temb)} :
           /\ locals' = l
           /\ IF l.raised
              THEN /\ pc' = "raised_block"
                   /\ UNCHANGED <<hidden_states, encoder_hidden_states, layer>>
              ELSE /\ pc' = "blocks"
                   /\ hidden_states' = BlockReturn(l).hidden_states
                   /\ encoder_hidden_states' = BlockReturn(l).encoder_hidden_states
                   /\ layer' = layer + 1
    /\ UNCHANGED <<config, transformer_blocks, parameters, sample, temb, output>>

\* forward, lines 225-234
ForwardEnd ==
    /\ pc = "blocks"
    /\ layer = Len(transformer_blocks)
    /\ LET out == Unpatchify(NormProjOut(config, hidden_states, temb), config.patch_size,
                             sample.shape[1], sample.shape[3], sample.shape[4],
                             sample.shape[5])
       IN  /\ output' = out
           /\ pc' = IF out.ok THEN "done" ELSE "raised_reshape"
    /\ UNCHANGED <<config, transformer_blocks, parameters, sample, hidden_states,
                   encoder_hidden_states, temb, layer, locals>>

Init ==
    /\ pc = "idle"
    /\ config \in Configs
    /\ transformer_blocks = TransformerBlocks(config)
    /\ parameters = GenericParameters(config.num_layers)
    /\ sample = None
    /\ hidden_states = None
    /\ encoder_hidden_states = None
    /\ temb = None
    /\ layer = 0
    /\ locals = NoLocals
    /\ output = None

Next ==
    \/ ForwardBegin
    \/ BlockStep
    \/ ForwardEnd

Spec == Init /\ [][Next]_vars

(***************************************************************************)
(* Construction alone, over configurations that include the default widths.*)
(***************************************************************************)
DefaultNumAttentionHeads == 24

DefaultAttentionHeadDim == 128

DefaultPooledProjectionDim == 1536

CtorConfigs ==
    [patch_size : 1..MaxPatch,
     num_attention_heads : (1..MaxHeads) \cup {12, DefaultNumAttentionHeads},
     attention_head_dim : HeadDims \cup {DefaultAttentionHeadDim},
     num_layers : 0..MaxLayers,
     pooled_projection_dim : (1..MaxPooled) \cup {DefaultPooledProjectionDim},
     in_channels : 1..MaxChannels,
     out_channels : 0..MaxOutChannels]

InitCtor ==
    /\ pc = "new"
    /\ config \in CtorConfigs
    /\ transformer_blocks = <<>>
    /\ parameters = GenericParameters(0)
    /\ sample = None
    /\ hidden_states = None
    /\ encoder_hidden_states = None
    /\ temb = None
    /\ layer = 0
    /\ locals = NoLocals
    /\ output = None

NextCtor ==
    Construct

SpecCtor == InitCtor /\ [][NextCtor]_vars

(***************************************************************************)
(* One call of a block on tensors of unknowns.                             *)
(***************************************************************************)
InitBlock ==
    /\ pc = "blocks"
    /\ layer = 0
    /\ \E d \in 1..MaxHeads, q \in 1..MaxPooled, cpo \in BOOLEAN,
          zv \in BOOLEAN, zt \in BOOLEAN :
          /\ config = [patch_size |-> 1, num_attention_heads |-> d,
                       attention_head_dim |-> 1, num_layers |-> 1,
                       pooled_projection_dim |-> q, in_channels |-> 1,
                       out_channels |-> 0]
          /\ transformer_blocks = <<MochiTransformerBlock(d, d, 1, q, cpo)>>
          /\ parameters = [patch_embed |-> "generic",
                           blocks |-> <<[norm1 |-> zv, norm1_context |-> zt]>>]
          /\ \E b \in 1..MaxBatch, n \in 1..MaxTokens, t \in 1..MaxText, tw \in {d, q} :
                /\ hidden_states = Unknown(<<"hidden_states">>, <<b, n, d>>, FALSE)
                /\ encoder_hidden_states =
                       Unknown(<<"encoder_hidden_states">>, <<b, t, tw>>, FALSE)
                /\ temb = Unknown(<<"temb">>, <<b, d>>, FALSE)
    /\ sample = None
    /\ locals = NoLocals
    /\ output = None

NextBlock ==
    BlockStep

SpecBlock == InitBlock /\ [][NextBlock]_vars

(***************************************************************************)
(* Patchify and unpatchify alone, around an empty block stack, with the    *)
(* identity patch embedding and output projection.                         *)
(***************************************************************************)
InitPatch ==
    /\ pc = "patchify"
    /\ layer = 0
    /\ transformer_blocks = <<>>
    /\ parameters = [patch_embed |-> "identity", blocks |-> <<>>]
    /\ \E p \in 1..MaxPatch, c \in 1..MaxChannels, b \in 1..MaxBatch,
          f \in 1..MaxFrames, hh \in 1..MaxPost, ww \in 1..MaxPost :
          /\ config = [patch_size |-> p, num_attention_heads |-> p * p * c,
                       attention_head_dim |-> 1, num_layers |-> 0,
                       pooled_projection_dim |-> 1, in_channels |-> c,
                       out_channels |-> 0]
          /\ sample = Unknown(<<"hidden_states">>, <<b, c, f, hh * p, ww * p>>, FALSE)
    /\ hidden_states = None
    /\ encoder_hidden_states = None
    /\ temb = None
    /\ locals = NoLocals
    /\ output = None

ApplyPatchify ==
    /\ pc = "patchify"
    /\ hidden_states' = Patchify(config, parameters.patch_embed, sample, sample.shape[1])
    /\ pc' = "unpatchify"
    /\ UNCHANGED <<config, transformer_blocks, parameters, sample,
                   encoder_hidden_states, temb, layer, locals, output>>

ApplyUnpatchify ==
    /\ pc = "unpatchify"
    /\ output' = Unpatchify(hidden_states, config.patch_size, sample.shape[1],
                            sample.shape[3], sample.shape[4], sample.shape[5])
    /\ pc' = "done"
    /\ UNCHANGED <<config, transformer_blocks, parameters, sample, hidden_states,
                   encoder_hidden_states, temb, layer, locals>>

NextPatch ==
    \/ ApplyPatchify
    \/ ApplyUnpatchify

SpecPatch == InitPatch /\ [][NextPatch]_vars

(***************************************************************************)
(* Properties.                                                             *)
(***************************************************************************)
\* The forward call has read its input (line 204).
Called ==
    pc \in {"blocks", "raised_patch_embed", "raised_block", "raised_reshape", "done"}

\* height % p == 0 and width % p == 0
Divisible ==
    /\ sample.shape[4] % config.patch_size = 0
    /\ sample.shape[5] % config.patch_size = 0

\* A block call has returned (SpecBlock: the one call of the run).
BlockReturned ==
    pc = "blocks" /\ layer >= 1 /\ locals # NoLocals

\* C1: for every N >= 0 and every 5-D input whose height and width are
\* multiples of the patch size, forward completes and returns a tensor of shape
\* (batch, out_channels, frames, height, width), whatever the channel dimension
\* and the pooled-projection width are.
C1_ForwardReturnsShape ==
    (Called /\ Divisible) =>
        /\ pc \in {"blocks", "done"}
        /\ pc = "done" =>
              output.shape = <<sample.shape[1], OutChannels(config), sample.shape[3],
                               sample.shape[4], sample.shape[5]>>

\* C2: unpatchify inverts patchify.  With the token axis enumerating (frame f,
\* row i, column j) and each token laid out as (patch row a, patch column b,
\* channel c), element (f, i, j, a, b, c) lands at output[batch, c, f, i*p + a,
\* j*p + b], and patchify followed by unpatchify around an empty block stack
\* gives the input back.
C2_UnpatchifyInvertsPatchify ==
    pc = "done" =>
        LET p == config.patch_size
            c == config.in_channels
            hh == sample.shape[4] \div p
            ww == sample.shape[5] \div p
        IN  /\ output = sample
            /\ hidden_states.shape = <<sample.shape[1], sample.shape[3] * hh * ww, p * p * c>>
            /\ \A n \in 0..(sample.shape[1] - 1), f \in 0..(sample.shape[3] - 1),
                  i \in 0..(hh - 1), j \in 0..(ww - 1) :
                  \A a \in 0..(p - 1), b \in 0..(p - 1), ch \in 0..(c - 1) :
                      /\ At(output, <<n, ch, f, i * p + a, j * p + b>>)
                           = At(hidden_states, <<n, (f * hh + i) * ww + j, (a * p + b) * c + ch>>)
                      /\ At(hidden_states, <<n, (f * hh + i) * ww + j, (a * p + b) * c + ch>>)
                           = <<"var", <<"hidden_states">>, <<n, ch, f, i * p + a, j * p + b>>>>

C2_Witness ==
    /\ pc = "done"
    /\ output.ok
    /\ config.patch_size >= 2
    /\ config.in_channels >= 2
    /\ sample.shape[1] >= 2
    /\ sample.shape[3] >= 2
    /\ sample.shape[4] >= 2 * config.patch_size
    /\ sample.shape[5] >= 2 * config.patch_size

C4_OnlyLastBlockTerminal ==
    /\ Len(transformer_blocks) = config.num_layers
    /\ \A k \in 1..Len(transformer_blocks) :
          transformer_blocks[k].context_pre_only <=> (k - 1 = config.num_layers - 1)
    /\ locals # NoLocals =>
          locals.self = transformer_blocks[IF pc = "raised_block" THEN layer + 1 ELSE layer]

C4_Witness ==
    /\ pc = "done"
    /\ config.num_layers = 1
    /\ transformer_blocks[1].context_pre_only
    /\ locals # NoLocals

\* C5: a forward call whose input height or width is not a multiple of the
\* patch size ends in a raised error and never returns an output tensor.
C5_NonDivisibleRaises ==
    pc = "done" => Divisible

\* C6: with zero gate vectors the gated residual updates leave their stream
\* unchanged: gate_msa = gate_mlp = 0 returns the video stream as given, and in
\* a non-terminal block enc_gate_msa = enc_gate_mlp = 0 returns the text stream
\* as given.
C6_ZeroGatesKeepStreams ==
    BlockReturned =>
        /\ locals.zero_gates.norm1 => hidden_states = locals.hidden_states_in
        /\ (~locals.self.context_pre_only /\ locals.zero_gates.norm1_context) =>
              encoder_hidden_states = locals.encoder_hidden_states_in

\* C7: the video-side feed-forward inner width is (4*dim*2) // 3 and the text
\* side's is (4*pooled_projection_dim*2) // 3, floor divisions taken
\* independently; for dim = 1536 it is 4096.
C7_FeedForwardInnerWidths ==
    \A k \in 1..Len(transformer_blocks) :
        /\ transformer_blocks[k].ff_inner_dim = (4 * InnerDim(config) * 2) \div 3
        /\ 3 * transformer_blocks[k].ff_inner_dim <= 8 * InnerDim(config)
        /\ 8 * InnerDim(config) < 3 * transformer_blocks[k].ff_inner_dim + 3
        /\ transformer_blocks[k].ff.inner_dim = transformer_blocks[k].ff_inner_dim
        /\ transformer_blocks[k].ff_context_inner_dim
             = (4 * config.pooled_projection_dim * 2) \div 3
        /\ 3 * transformer_blocks[k].ff_context_inner_dim <= 8 * config.pooled_projection_dim
        /\ 8 * config.pooled_projection_dim < 3 * transformer_blocks[k].ff_context_inner_dim + 3
        /\ ~transformer_blocks[k].context_pre_only =>
              transformer_blocks[k].ff_context.inner_dim
                = transformer_blocks[k].ff_context_inner_dim
        /\ InnerDim(config) = 1536 => transformer_blocks[k].ff_inner_dim = 4096
        /\ config.pooled_projection_dim = 1536 =>
              transformer_blocks[k].ff_context_inner_dim = 4096

C7_Witness ==
    /\ pc = "idle"
    /\ Len(transformer_blocks) >= 2
    /\ InnerDim(config) = 1536
    /\ config.pooled_projection_dim = 2
    /\ transformer_blocks[1].ff_inner_dim = 4096
    /\ transformer_blocks[1].ff_context_inner_dim = 5

\* C8: in a non-terminal block the text stream mirrors the video side:
\* text1 = text + RMSNorm(attn_text) * tanh(enc_gate_msa); the text feed-forward
\* receives exactly RMSNorm(text1) * (1 + enc_scale_mlp); the result is
\* text1 + ff_context_out * tanh(enc_gate_mlp).
C8_TextMirrorsVideo ==
    (BlockReturned /\ ~locals.self.context_pre_only) =>
        LET text1 == Add(locals.encoder_hidden_states_in,
                         Mul(RMSNorm(locals.context_attn_hidden_states),
                             Unsqueeze(Tanh(locals.enc_gate_msa), 1)))
        IN  /\ locals.encoder_hidden_states_attn = text1
            /\ locals.ff_context_input
                 = Mul(RMSNorm(text1), OnePlus(Unsqueeze(locals.enc_scale_mlp, 1)))
            /\ encoder_hidden_states
                 = Add(text1, Mul(locals.context_ff_output,
                                  Unsqueeze(Tanh(locals.enc_gate_mlp), 1)))

\* x[B, T, W] times v[B, W], the vector of batch element b multiplying every
\* token of batch element b and nothing else.
PerBatch(x, v) ==
    IF ~x.ok \/ ~v.ok THEN Raised
    ELSE IF Len(x.shape) # 3 \/ v.shape # <<x.shape[1], x.shape[3]>> THEN Raised
    ELSE IF x.meta \/ v.meta THEN Meta(x.shape)
    ELSE Tensor(x.shape, [k \in 1..Numel(x.shape) |->
            TMul(x.data[k], At(v, <<Unravel(k - 1, x.shape)[1],
                                    Unravel(k - 1, x.shape)[3]>>))])

\* C9: every gate and scale multiplication of a block, video side and text
\* side, broadcasts its (batch, dim) vector over the token axis, for every
\* batch size and token count.
C9_ModulationPerBatch ==
    BlockReturned =>
        /\ locals.hidden_states_attn
             = Add(locals.hidden_states_in,
                   PerBatch(RMSNorm(locals.attn_hidden_states), Tanh(locals.gate_msa)))
        /\ locals.ff_input
             = PerBatch(RMSNorm(locals.hidden_states_attn), OnePlus(locals.scale_mlp))
        /\ hidden_states
             = Add(locals.hidden_states_attn,
                   PerBatch(locals.ff_output, Tanh(locals.gate_mlp)))
        /\ ~locals.self.context_pre_only =>
              /\ locals.encoder_hidden_states_attn
                   = Add(locals.encoder_hidden_states_in,
                         PerBatch(RMSNorm(locals.context_attn_hidden_states),
                                  Tanh(locals.enc_gate_msa)))
              /\ locals.ff_context_input
                   = Add(locals.encoder_hidden_states_attn,
                         PerBatch(RMSNorm(locals.encoder_hidden_states_attn),
                                  OnePlus(locals.enc_scale_mlp)))
              /\ encoder_hidden_states
                   = Add(locals.encoder_hidden_states_attn,
                         PerBatch(locals.context_ff_output, Tanh(locals.enc_gate_mlp)))

\* C10: through the N blocks of a forward pass the video stream keeps the
\* channel width dim, the text stream the width it left the conditioning
\* embedder with, and the batch size stays; every block, terminal or not,
\* accepts streams of these widths and returns streams of the same widths.
C10_WidthsKept ==
    /\ pc # "raised_block"
    /\ pc \in {"blocks", "done"} =>
          /\ hidden_states.shape[1] = sample.shape[1]
          /\ encoder_hidden_states.shape[1] = sample.shape[1]
          /\ Width(hidden_states) = InnerDim(config)
          /\ Width(encoder_hidden_states) = config.pooled_projection_dim

====
